---------------------------- MODULE Spec2Model ----------------------------
(***************************************************************************)
(* A model of dcimv (src/src/main.rs): an inotify-driven monitor that      *)
(* moves media files out of a watched tree into a mirrored destination     *)
(* tree.  The model holds the watched tree, the kernel's inotify state,    *)
(* the destination tree and the Monitor struct, and has one action per     *)
(* step of main's loop plus the actions of the external actor (the camera  *)
(* application) that changes the watched tree concurrently.                *)
(***************************************************************************)
EXTENDS Integers, Sequences, FiniteSets, TLC

(***************************************************************************)
(* Bounds of the model.                                                    *)
(***************************************************************************)
\* Number of operations the external actor performs on the watched tree.
MaxEnvOps == 2

(***************************************************************************)
(* Names.  A name is a string; Bytes gives its bytes, which is what the    *)
(* code inspects (first byte, prefix, suffix, extension).                  *)
(***************************************************************************)
Dot == "."
NoName == ""

Bytes(n) ==
  CASE n = "."           -> << ".">>
    [] n = "Camera"      -> << "C", "a", "m", "e", "r", "a" >>
    [] n = "Screenshots" -> << "S", "c", "r", "e", "e", "n", "s", "h", "o", "t", "s" >>
    [] n = "Burst"       -> << "B", "u", "r", "s", "t" >>
    [] n = "X_PRO"       -> << "X", "_", "P", "R", "O" >>
    [] n = "100ANDRO"    -> << "1", "0", "0", "A", "N", "D", "R", "O" >>
    [] n = ".thumb"      -> << ".", "t", "h", "u", "m", "b" >>
    [] n = "DSC_2024"    -> << "D", "S", "C", "_", "2", "0", "2", "4" >>
    [] n = "IMG_1.jpg"   -> << "I", "M", "G", "_", "1", ".", "j", "p", "g" >>
    [] n = "shot.png"    -> << "s", "h", "o", "t", ".", "p", "n", "g" >>
    [] n = "VID_1.MP4"   -> << "V", "I", "D", "_", "1", ".", "M", "P", "4" >>
    [] n = "raw.Dng"     -> << "r", "a", "w", ".", "D", "n", "g" >>
    [] n = ".x.mp4"      -> << ".", "x", ".", "m", "p", "4" >>
    [] n = "notes.txt"   -> << "n", "o", "t", "e", "s", ".", "t", "x", "t" >>
    [] n = "mp4"         -> << "m", "p", "4" >>
    [] OTHER             -> << >>

\* The directory and file names the external actor uses.
DirNames == { "Burst", ".thumb", "DSC_2024" }
FileNames == { "IMG_1.jpg", "shot.png", "VID_1.MP4", ".x.mp4" }

\* The order in which a directory listing returns its entries.
NameOrder ==
  << "Camera", "Screenshots", "Burst", "X_PRO", "100ANDRO", ".thumb", "DSC_2024",
     "IMG_1.jpg", "shot.png", "VID_1.MP4", "raw.Dng", ".x.mp4", "notes.txt", "mp4" >>

Rank(n) == CHOOSE i \in 1..Len(NameOrder) : NameOrder[i] = n

IMG_EXT_STRS ==
  { << "j", "p", "g" >>, << "j", "p", "e", "g" >>, << "p", "n", "g" >>,
    << "g", "i", "f" >>, << "w", "e", "b", "p" >>, << "b", "m", "p" >>,
    << "t", "i", "f" >>, << "t", "i", "f", "f" >>, << "j", "x", "l" >>,
    << "a", "p", "n", "g" >> }

(***************************************************************************)
(* Byte-string helpers (std: str::starts_with, str::ends_with,             *)
(* OsStr::to_ascii_lowercase, Path::extension).                            *)
(***************************************************************************)
StartsWith(s, p) == Len(s) >= Len(p) /\ SubSeq(s, 1, Len(p)) = p

EndsWith(s, p) == Len(s) >= Len(p) /\ SubSeq(s, Len(s) - Len(p) + 1, Len(s)) = p

LowerByte(c) ==
  CASE c = "A" -> "a" [] c = "B" -> "b" [] c = "C" -> "c" [] c = "D" -> "d"
    [] c = "E" -> "e" [] c = "F" -> "f" [] c = "G" -> "g" [] c = "H" -> "h"
    [] c = "I" -> "i" [] c = "J" -> "j" [] c = "K" -> "k" [] c = "L" -> "l"
    [] c = "M" -> "m" [] c = "N" -> "n" [] c = "O" -> "o" [] c = "P" -> "p"
    [] c = "Q" -> "q" [] c = "R" -> "r" [] c = "S" -> "s" [] c = "T" -> "t"
    [] c = "U" -> "u" [] c = "V" -> "v" [] c = "W" -> "w" [] c = "X" -> "x"
    [] c = "Y" -> "y" [] c = "Z" -> "z" [] OTHER -> c

ToAsciiLowercase(s) == [i \in 1..Len(s) |-> LowerByte(s[i])]

\* Position of the last "." of s, 0 when there is none.
LastDot(s) ==
  LET ds == { i \in 1..Len(s) : s[i] = "." }
  IN  IF ds = {} THEN 0 ELSE CHOOSE i \in ds : \A j \in ds : j <= i

\* Path::extension of a bare file name: the bytes after the last dot; none
\* when there is no dot or the only dot is the first byte.
HasExtension(n) == LastDot(Bytes(n)) > 1

Extension(n) == SubSeq(Bytes(n), LastDot(Bytes(n)) + 1, Len(Bytes(n)))

\* name.as_encoded_bytes()[0] == b'.'
IsHidden(n) == Bytes(n)[1] = "."

(***************************************************************************)
(* PathPolicy.  A relative path is a sequence of names; the root is << "." >>. *)
(***************************************************************************)
RootPath == << Dot >>

is_img_dir(path) ==
  /\ Len(path) > 0
  /\ LET s == Bytes(path[1])
     IN  \/ EndsWith(s, Bytes("Camera"))
         \/ EndsWith(s, << "_", "P", "R", "O" >>)
         \/ s = Bytes("100ANDRO")

is_ignored_dir(name, inpl) ==
  inpl /\ StartsWith(Bytes(name), << "D", "S", "C", "_", "2", "0" >>)

\* Directory::new
NewDirectory(path, ino) ==
  [ path |-> path, ino |-> ino, allow_img |-> is_img_dir(path), dst_created |-> FALSE ]

\* Directory::join / join_owned
join(dir, name) ==
  IF dir.path = RootPath THEN << name >> ELSE Append(dir.path, name)

\* Directory::filter_name comparing the extension as written.
filter_name_exact_case(dir, name) ==
  /\ HasExtension(name)
  /\ LET ext == Extension(name)
     IN  IF ext = << "m", "p", "4" >> \/ ext = << "d", "n", "g" >>
         THEN TRUE
         ELSE IF ~dir.allow_img THEN ext \in IMG_EXT_STRS ELSE FALSE

\* Directory::filter_name
filter_name(dir, name) ==
  /\ HasExtension(name)
  /\ LET ext == ToAsciiLowercase(Extension(name))
     IN  IF ext = << "m", "p", "4" >> \/ ext = << "d", "n", "g" >>
         THEN TRUE
         ELSE IF ~dir.allow_img THEN ext \in IMG_EXT_STRS ELSE FALSE


(***************************************************************************)
(* State.                                                                  *)
(*   tree, files      the watched tree: live directories by inode, files   *)
(*   kw, nextWd, queue  the kernel's inotify instance: watch descriptor -> *)
(*                    inode, the next descriptor, the unread events        *)
(*   dstDirs, dstFiles  the destination tree (paths relative to dest)      *)
(*   dirs, inos, dry, fail   struct Monitor                                *)
(*   inplace          Args.inplace                                         *)
(*   pc, batch, evts, slept  position in main / Monitor::run and run's     *)
(*                    locals                                               *)
(*   order, log       history: the batch indices processed so far, what    *)
(*                    the latest step logged                               *)
(*   lastRead, prevRead  history: the outcome of the latest read and of    *)
(*                    the one before it ("none", "ok" or "err")            *)
(*   envOps           operations of the external actor so far              *)
(***************************************************************************)
VARIABLES tree, files, kw, nextWd, queue, dstDirs, dstFiles,
          dirs, inos, dry, fail, inplace, pc, batch, evts, slept,
          order, log, lastRead, prevRead, envOps

vars == << tree, files, kw, nextWd, queue, dstDirs, dstFiles,
           dirs, inos, dry, fail, inplace, pc, batch, evts, slept,
           order, log, lastRead, prevRead, envOps >>

EmptyFn == [x \in {} |-> 0]
Put(f, k, v) == [x \in DOMAIN f \cup {k} |-> IF x = k THEN v ELSE f[x]]
Drop(f, k) == [x \in DOMAIN f \ {k} |-> f[x]]

(***************************************************************************)
(* The watched tree.  tree[i] = [parent, name] for each live directory     *)
(* inode i; the root (the current directory) is inode 1.  A file is        *)
(* [dir, name, id]: id identifies its content.                             *)
(***************************************************************************)
RootIno == 1

RECURSIVE PathOf(_)
PathOf(i) ==
  IF i = RootIno THEN RootPath
  ELSE LET p == PathOf(tree[i].parent)
       IN  IF p = RootPath THEN << tree[i].name >> ELSE Append(p, tree[i].name)

\* The inode of the directory a relative path names, 0 when there is none.
Resolve(path) ==
  LET hit == { i \in DOMAIN tree : PathOf(i) = path }
  IN  IF hit = {} THEN 0 ELSE CHOOSE i \in hit : TRUE

ChildDirs(i) == { c \in DOMAIN tree : tree[c].parent = i }

RECURSIVE Subtree(_)
Subtree(i) == {i} \cup UNION { Subtree(c) : c \in ChildDirs(i) }

FilesIn(i) == { f \in files : f.dir = i }

NameTaken(i, n) ==
  \/ \E c \in ChildDirs(i) : tree[c].name = n
  \/ \E f \in FilesIn(i) : f.name = n

\* The file a relative path names, as a set of at most one file.
FileAt(path) ==
  IF Len(path) = 0 THEN {}
  ELSE LET d == Resolve(IF Len(path) = 1 THEN RootPath
                        ELSE SubSeq(path, 1, Len(path) - 1))
       IN  IF d = 0 THEN {} ELSE { f \in FilesIn(d) : f.name = path[Len(path)] }

\* The smallest inode number not in use (a freed number is used again).
FreshIno == CHOOSE i \in 1..(Cardinality(DOMAIN tree) + 1) :
              /\ i \notin DOMAIN tree
              /\ \A j \in 1..(i - 1) : j \in DOMAIN tree

\* A set of names as the sequence a directory listing yields.
RECURSIVE Listing(_)
Listing(S) ==
  IF S = {} THEN << >>
  ELSE LET n == CHOOSE x \in S : \A y \in S : Rank(x) <= Rank(y)
       IN  << n >> \o Listing(S \ {n})

(***************************************************************************)
(* inotify.  An event is [wd, mask, name, isdir]; name is NoName when the  *)
(* event carries none.  g_fid and g_src are not read by the Monitor: they  *)
(* record which file a creation event announces and where it was.          *)
(***************************************************************************)
Event(wd, mask, name, isdir, fid, src) ==
  [ wd |-> wd, mask |-> mask, name |-> name, isdir |-> isdir,
    g_fid |-> fid, g_src |-> src ]

\* The events the kernel queues for inode i, for the watch on it if any.
Notify(i, mask, name, isdir, fid, src) ==
  LET ws == { w \in DOMAIN kw : kw[w] = i }
  IN  IF ws = {} THEN << >>
      ELSE << Event(CHOOSE w \in ws : TRUE, mask, name, isdir, fid, src) >>

RemovalMasks == { "DELETE_SELF", "MOVE_SELF", "IGNORED" }

(***************************************************************************)
(* The Monitor's operations.  Each takes and returns a record w of what a  *)
(* step of the Monitor can change: dirs, inos, the kernel's watches and    *)
(* queue, the files of the watched tree, the destination tree, run's slept *)
(* flag, the log of the step, pan (the process has panicked), res/wd, the  *)
(* result of the last call ("ok" or the error), and flt, the call that     *)
(* fails in this step.                                                     *)
(***************************************************************************)
World ==
  [ dirs |-> dirs, inos |-> inos, kw |-> kw, nextWd |-> nextWd, queue |-> queue,
    files |-> files, dstDirs |-> dstDirs, dstFiles |-> dstFiles, slept |-> slept,
    log |-> << >>, pan |-> FALSE, res |-> "ok", wd |-> 0, flt |-> "none" ]

\* The operating-system call that fails during a step, if any: the watch
\* registration of add, the read_dir of watch, or create_dir_all of dst (the
\* directory was removed or replaced meanwhile, the watch limit is reached,
\* dest cannot be written).  The calls whose failure follows from the state
\* (stat, create_new, rename, the watch removal) are not in this set.
Faults == { "none", "add_watch", "read_dir", "create_dir_all" }

Faulty(f) == [World EXCEPT !.flt = f]

Say(w, op, wd, path, name, res) ==
  [w EXCEPT !.log = Append(@, [ op |-> op, wd |-> wd, path |-> path,
                                name |-> name, res |-> res ])]

Ok(w) == [w EXCEPT !.res = "ok"]
Err(w, e) == [w EXCEPT !.res = e]
Panic(w, why) == Say([w EXCEPT !.pan = TRUE, !.res = "panic"], "panic", 0, << >>, NoName, why)

FileAtIn(fs, path) ==
  IF Len(path) = 0 THEN {}
  ELSE LET d == Resolve(IF Len(path) = 1 THEN RootPath
                        ELSE SubSeq(path, 1, Len(path) - 1))
       IN  IF d = 0 THEN {} ELSE { f \in fs : f.dir = d /\ f.name = path[Len(path)] }

\* inotify_add_watch on a directory: the descriptor of the watch the inode
\* already has, else the next descriptor.
AddWatchWd(w, ino) ==
  LET old == { x \in DOMAIN w.kw : w.kw[x] = ino }
  IN  IF old # {} THEN CHOOSE x \in old : TRUE ELSE w.nextWd

\* Monitor::add from the watch registration on: Directory::new, dirs.insert
\* (a panic when the descriptor is already a key), inos.insert.
add_insert(w, dir, ino, wd) ==
  IF wd \in DOMAIN w.dirs
  THEN Panic([w EXCEPT !.kw = Put(@, wd, ino),
                       !.dirs = Put(@, wd, NewDirectory(dir, ino))], "Duplicate wd")
  ELSE Say([w EXCEPT !.kw = Put(@, wd, ino),
                     !.nextWd = IF wd = @ THEN @ + 1 ELSE @,
                     !.dirs = Put(@, wd, NewDirectory(dir, ino)),
                     !.inos = @ \cup {ino},
                     !.res = "ok",
                     !.wd = wd],
           "watching", wd, dir, NoName, IF is_img_dir(dir) THEN "Photos" ELSE "")

\* Monitor::add after dir.metadata(): ino is the inode found, 0 when the path
\* names no directory.
add_stat(w, dir, ino) ==
  IF ino = 0
  THEN Err(w, IF FileAtIn(w.files, dir) # {} THEN "InvalidInput" ELSE "NotFound")
  ELSE IF ino \in w.inos
  THEN Err(w, "AlreadyExists")
  ELSE IF w.flt = "add_watch"
  THEN Panic(w, "add_watch")
  ELSE add_insert(w, dir, ino, AddWatchWd(w, ino))

\* Monitor::add
add(w, dir) == add_stat(w, dir, Resolve(dir))

\* Monitor::remove with the inode left in inos.
remove_keeps_inode(w, wd) ==
  IF wd \in DOMAIN w.dirs
  THEN Say([w EXCEPT !.dirs = Drop(@, wd)], "unwatched", wd, w.dirs[wd].path, NoName, "")
  ELSE Say(w, "remove", wd, << >>, NoName, "unknown wd")

\* Monitor::remove that fails on a handle that is absent.
remove_strict(w, wd) ==
  IF wd \in DOMAIN w.dirs
  THEN Say([w EXCEPT !.dirs = Drop(@, wd), !.inos = @ \ {w.dirs[wd].ino}],
           "unwatched", wd, w.dirs[wd].path, NoName, "")
  ELSE Panic(w, "Removing unknown wd")

\* Monitor::remove
remove(w, wd) ==
  IF wd \in DOMAIN w.dirs
  THEN Say([w EXCEPT !.dirs = Drop(@, wd), !.inos = @ \ {w.dirs[wd].ino}],
           "unwatched", wd, w.dirs[wd].path, NoName,
           IF w.dirs[wd].ino \in w.inos THEN "" ELSE "unknown inode")
  ELSE Say(w, "remove", wd, << >>, NoName, "unknown wd")

\* The place under dest that root.join(path) names.
DstKey(path) == IF path = RootPath THEN << >> ELSE path

\* fs::create_dir_all(r).unwrap()
create_dir_all(w, wd, r) ==
  IF w.flt = "create_dir_all" \/ \E k \in 1..Len(r) : SubSeq(r, 1, k) \in DOMAIN w.dstFiles
  THEN Panic(w, "create_dir_all")
  ELSE Say([w EXCEPT !.dstDirs = @ \cup { SubSeq(r, 1, k) : k \in 1..Len(r) }],
           "create_dir_all", wd, w.dirs[wd].path, NoName, "")

\* Directory::dst
dst(w, wd) ==
  IF w.dirs[wd].dst_created THEN w
  ELSE create_dir_all([w EXCEPT !.dirs[wd].dst_created = TRUE], wd, DstKey(w.dirs[wd].path))

\* Monitor::emit with a plain rename in place of the exclusive create.
emit_renames_over(w, wd, name, f, d) ==
  IF w.pan THEN w
  ELSE IF dry
  THEN Ok(Say(w, "emit", wd, w.dirs[wd].path, name, "dry"))
  ELSE IF f = {}
  THEN Err(Say(w, "emit", wd, w.dirs[wd].path, name, "NotFound"), "NotFound")
  ELSE Ok(Say([w EXCEPT !.dstFiles = Put(@, d, (CHOOSE y \in f : TRUE).id), !.files = @ \ f],
              "emit", wd, w.dirs[wd].path, name, "moved"))

\* Monitor::emit removing its placeholder when the rename fails.
emit_cleans_placeholder(w, wd, name, f, d) ==
  IF w.pan THEN w
  ELSE IF dry
  THEN Ok(Say(w, "emit", wd, w.dirs[wd].path, name, "dry"))
  ELSE IF d \in DOMAIN w.dstFiles \/ d \in w.dstDirs
  THEN Err(Say(w, "emit", wd, w.dirs[wd].path, name, "AlreadyExists"), "AlreadyExists")
  ELSE IF f = {}
  THEN Err(Say(w, "emit", wd, w.dirs[wd].path, name, "NotFound"), "NotFound")
  ELSE Ok(Say([w EXCEPT !.dstFiles = Put(@, d, (CHOOSE y \in f : TRUE).id), !.files = @ \ f],
              "emit", wd, w.dirs[wd].path, name, "moved"))

\* Monitor::emit after dir.dst(): f is the file at src (a set of at most one
\* file), d the destination path.
emit_move(w, wd, name, f, d) ==
  IF w.pan THEN w
  ELSE IF dry
  THEN Ok(Say(w, "emit", wd, w.dirs[wd].path, name, "dry"))
  ELSE IF d \in DOMAIN w.dstFiles \/ d \in w.dstDirs
  THEN Err(Say(w, "emit", wd, w.dirs[wd].path, name, "AlreadyExists"), "AlreadyExists")
  ELSE IF f = {}
  THEN Err(Say([w EXCEPT !.dstFiles = Put(@, d, 0)],
               "emit", wd, w.dirs[wd].path, name, "NotFound"), "NotFound")
  ELSE Ok(Say([w EXCEPT !.dstFiles = Put(@, d, (CHOOSE y \in f : TRUE).id), !.files = @ \ f],
              "emit", wd, w.dirs[wd].path, name, "moved"))

\* Monitor::emit with the destination taken as dest/name, the relative
\* directory left out.
emit_flat(w, wd, name, lvl) ==
  emit_move(dst(w, wd), wd, name,
            FileAtIn(w.files, join(w.dirs[wd], name)),
            << name >>)

\* Monitor::emit
emit(w, wd, name, lvl) ==
  emit_move(dst(w, wd), wd, name,
            FileAtIn(w.files, join(w.dirs[wd], name)),
            Append(DstKey(w.dirs[wd].path), name))

\* The loop of Monitor::watch over the plain files of a listing.
RECURSIVE EmitListed(_, _, _)
EmitListed(w, wd, names) ==
  IF names = << >> \/ w.pan THEN w
  ELSE EmitListed(IF filter_name(w.dirs[wd], Head(names))
                  THEN emit(w, wd, Head(names), "Warn")
                  ELSE w,
                  wd, Tail(names))

\* The names Monitor::watch pushes to sub_dirs, and the plain files it looks
\* at, of the listing of directory ino.
ListedDirs(ino, inpl) ==
  Listing({ n \in { tree[c].name : c \in ChildDirs(ino) } :
              ~IsHidden(n) /\ ~is_ignored_dir(n, inpl) })

ListedFiles(fs, ino) ==
  Listing({ n \in { f.name : f \in { g \in fs : g.dir = ino } } : ~IsHidden(n) })

\* Monitor::watch, its body once add returned Ok(wd), and its loop over
\* sub_dirs.
RECURSIVE watch(_, _, _), watch_scan(_, _, _, _), WatchAll(_, _, _)
watch(w, root, inpl) ==
  IF w.pan THEN w ELSE watch_scan(add(w, root), root, inpl, Resolve(root))

watch_scan(a, root, inpl, ino) ==
  IF a.pan THEN a
  ELSE IF a.res # "ok" THEN Ok(Say(a, "error watching", 0, root, NoName, a.res))
  ELSE IF ino = 0 \/ a.flt = "read_dir" THEN Panic(a, "read_dir")
  ELSE Ok(WatchAll(IF inpl THEN EmitListed(a, a.wd, ListedFiles(a.files, ino)) ELSE a,
                   [ i \in 1..Len(ListedDirs(ino, inpl)) |->
                       join(a.dirs[a.wd], ListedDirs(ino, inpl)[i]) ],
                   inpl))

WatchAll(w, paths, inpl) ==
  IF paths = << >> \/ w.pan THEN w
  ELSE WatchAll(watch(w, Head(paths), inpl), Tail(paths), inpl)

\* Monitor::find_dir
find_dir(ds, wd) == wd \in DOMAIN ds

\* inotify_rm_watch through Watches::remove: the watch is dropped and the
\* kernel queues IGNORED; an unknown descriptor is an error.
rm_watch(w, wd) ==
  IF wd \in DOMAIN w.kw
  THEN Err([w EXCEPT !.kw = Drop(@, wd),
                     !.queue = Append(@, Event(wd, "IGNORED", NoName, FALSE, 0, << >>))],
           "true")
  ELSE Err(w, "InvalidInput")

\* Monitor::handle_rm with IGNORED left for the second pass.
handle_rm_keeps_ignored(w, e) ==
  IF e.mask = "DELETE_SELF" THEN Err(remove(w, e.wd), "true")
  ELSE IF e.mask = "MOVE_SELF" THEN rm_watch(remove(w, e.wd), e.wd)
  ELSE Err(w, "false")

\* Monitor::handle_rm with a panic when the watch removal fails.
handle_rm_stops(w, e) ==
  IF e.mask = "IGNORED" THEN Err(w, "true")
  ELSE IF e.mask = "DELETE_SELF" THEN Err(remove(w, e.wd), "true")
  ELSE IF e.mask = "MOVE_SELF"
  THEN IF e.wd \in DOMAIN w.kw THEN rm_watch(remove(w, e.wd), e.wd)
       ELSE Panic(remove(w, e.wd), "rm_watch")
  ELSE Err(w, "false")

\* Monitor::handle_rm without the watch removal on a self-move.
handle_rm_leaves_watch(w, e) ==
  IF e.mask = "IGNORED" THEN Err(w, "true")
  ELSE IF e.mask = "DELETE_SELF" THEN Err(remove(w, e.wd), "true")
  ELSE IF e.mask = "MOVE_SELF" THEN Err(remove(w, e.wd), "true")
  ELSE Err(w, "false")

\* Monitor::handle_rm: the result is w.res = "true", "false" or the error.
handle_rm(w, e) ==
  IF e.mask = "IGNORED" THEN Err(w, "true")
  ELSE IF e.mask = "DELETE_SELF" THEN Err(remove(w, e.wd), "true")
  ELSE IF e.mask = "MOVE_SELF" THEN rm_watch(remove(w, e.wd), e.wd)
  ELSE Err(w, "false")

\* std::thread::sleep before every move of the batch.
settle_every_time(w, wd) ==
  Say([w EXCEPT !.slept = TRUE], "sleep", wd, << >>, NoName, "")

\* std::thread::sleep, once per batch.
settle(w, wd) ==
  IF ~w.slept THEN Say([w EXCEPT !.slept = TRUE], "sleep", wd, << >>, NoName, "") ELSE w

\* Monitor::handle without the test of the name's first byte.
handle_takes_hidden(w, e) ==
  IF e.name = NoName THEN Ok(w)
  ELSE IF ~find_dir(w.dirs, e.wd) THEN Err(w, "NotFound")
  ELSE IF e.isdir THEN Ok(watch(w, join(w.dirs[e.wd], e.name), FALSE))
  ELSE IF filter_name(w.dirs[e.wd], e.name) THEN emit(settle(w, e.wd), e.wd, e.name, "Info")
  ELSE Ok(w)

\* Monitor::handle returning Ok for a handle that is not in dirs.
handle_silent_unknown(w, e) ==
  IF e.name = NoName THEN Ok(w)
  ELSE IF IsHidden(e.name) THEN Ok(w)
  ELSE IF ~find_dir(w.dirs, e.wd) THEN Ok(w)
  ELSE IF e.isdir THEN Ok(watch(w, join(w.dirs[e.wd], e.name), FALSE))
  ELSE IF filter_name(w.dirs[e.wd], e.name) THEN emit(settle(w, e.wd), e.wd, e.name, "Info")
  ELSE Ok(w)

\* Monitor::handle
handle(w, e) ==
  IF e.name = NoName THEN Ok(w)
  ELSE IF IsHidden(e.name) THEN Ok(w)
  ELSE IF ~find_dir(w.dirs, e.wd) THEN Err(w, "NotFound")
  ELSE IF e.isdir THEN Ok(watch(w, join(w.dirs[e.wd], e.name), FALSE))
  ELSE IF filter_name(w.dirs[e.wd], e.name) THEN emit(settle(w, e.wd), e.wd, e.name, "Info")
  ELSE Ok(w)

\* The retain pass of Monitor::run: handle_rm on every event of the batch in
\* arrival order; r.kept are the indices of the events that stay for the
\* second pass, r.order those of the events the pass consumed.
Retained(r, i, w1) ==
  IF w1.res = "false" THEN [r EXCEPT !.w = w1, !.kept = Append(@, i)]
  ELSE IF w1.res = "true" THEN [r EXCEPT !.w = w1, !.order = Append(@, i)]
  ELSE [r EXCEPT !.w = Say(w1, "error handling removal", r.batch[i].wd, << >>, NoName, w1.res),
                 !.order = Append(@, i)]

RECURSIVE Retain(_, _)
Retain(r, i) ==
  IF i > Len(r.batch) THEN r
  ELSE Retain(Retained(r, i, handle_rm(r.w, r.batch[i])), i + 1)

(***************************************************************************)
(* Initial state: Monitor::new has run, main is about to call m.watch(".").*)
(* The current directory holds Camera/, empty, and Screenshots/ with the    *)
(* files raw.Dng and .x.mp4 and the empty directory .thumb/.               *)
(***************************************************************************)
Init ==
  /\ tree = [ i \in {1, 2, 3, 4} |->
                IF i = 1 THEN [ parent |-> 0, name |-> Dot ]
                ELSE IF i = 2 THEN [ parent |-> 1, name |-> "Camera" ]
                ELSE IF i = 3 THEN [ parent |-> 1, name |-> "Screenshots" ]
                ELSE [ parent |-> 3, name |-> ".thumb" ] ]
  /\ files = { [ dir |-> 3, name |-> "raw.Dng", id |-> 8 ],
               [ dir |-> 3, name |-> ".x.mp4", id |-> 9 ] }
  /\ kw = EmptyFn
  /\ nextWd = 1
  /\ queue = << >>
  /\ dstDirs = {}
  /\ dstFiles = EmptyFn
  /\ dirs = EmptyFn
  /\ inos = {}
  /\ dry \in BOOLEAN
  /\ inplace \in BOOLEAN
  /\ fail = FALSE
  /\ pc = "start"
  /\ batch = << >>
  /\ evts = << >>
  /\ slept = FALSE
  /\ order = << >>
  /\ log = << >>
  /\ lastRead = "none"
  /\ prevRead = "none"
  /\ envOps = 0

\* The step's effect on everything but run's locals and the history.
Apply(w) ==
  /\ dirs' = w.dirs
  /\ inos' = w.inos
  /\ kw' = w.kw
  /\ nextWd' = w.nextWd
  /\ queue' = w.queue
  /\ files' = w.files
  /\ dstDirs' = w.dstDirs
  /\ dstFiles' = w.dstFiles
  /\ log' = w.log

(***************************************************************************)
(* The Monitor's steps.                                                    *)
(***************************************************************************)
\* main: m.watch(PathBuf::from("."), args.inplace)
Watched(w) ==
  /\ Apply(w)
  /\ pc' = IF w.pan THEN "panic" ELSE "read"

MainWatch ==
  /\ pc = "start"
  /\ \E f \in Faults : Watched(watch(Faulty(f), RootPath, inplace))
  /\ UNCHANGED << tree, envOps, dry, inplace, fail, batch, evts, slept, order, lastRead,
                  prevRead >>

\* Monitor::run, Ok branch, with self.fail left as it was.
fail_kept_after_ok(f) == f

\* Monitor::run, Ok branch: self.fail = false
fail_after_ok(f) == FALSE

\* Monitor::run, read_events_blocking returns the queued events: the flag is
\* reset and the retain pass handles the removals.
Removed(r) ==
  /\ Apply(r.w)
  /\ batch' = r.batch
  /\ evts' = r.kept
  /\ order' = r.order
  /\ pc' = IF r.w.pan THEN "panic" ELSE IF r.kept = << >> THEN "read" ELSE "handle"

RunRead ==
  /\ pc = "read"
  /\ queue # << >>
  /\ Removed(Retain([ w |-> [World EXCEPT !.queue = << >>], batch |-> queue,
                      kept |-> << >>, order |-> << >> ], 1))
  /\ fail' = fail_after_ok(fail)
  /\ slept' = FALSE
  /\ lastRead' = "ok"
  /\ prevRead' = lastRead
  /\ UNCHANGED << tree, envOps, dry, inplace >>

\* Monitor::run, read_events_blocking fails.
RunReadErr ==
  /\ pc = "read"
  /\ IF fail
     THEN /\ pc' = "panic"
          /\ fail' = fail
          /\ log' = << [ op |-> "panic", wd |-> 0, path |-> << >>, name |-> NoName,
                         res |-> "Error reading events again" ] >>
     ELSE /\ pc' = pc
          /\ fail' = TRUE
          /\ log' = << [ op |-> "error reading", wd |-> 0, path |-> << >>, name |-> NoName,
                         res |-> "" ] >>
  /\ lastRead' = "err"
  /\ prevRead' = lastRead
  /\ UNCHANGED << tree, files, envOps, kw, nextWd, queue, dstDirs, dstFiles, dirs, inos,
                  dry, inplace, batch, evts, slept, order >>

\* Monitor::run, one iteration of the loop over the events that stayed.
Handled(w) ==
  /\ Apply(w)
  /\ slept' = w.slept
  /\ order' = Append(order, Head(evts))
  /\ evts' = Tail(evts)
  /\ pc' = IF w.pan THEN "panic" ELSE IF Tail(evts) = << >> THEN "read" ELSE "handle"

\* The error a failed handle leaves in the log.
Logged(h, e) ==
  IF h.res = "ok" \/ h.pan THEN h ELSE Say(h, "error handling", e.wd, << >>, e.name, h.res)

RunHandle ==
  /\ pc = "handle"
  /\ evts # << >>
  /\ \E f \in Faults : Handled(Logged(handle(Faulty(f), batch[Head(evts)]), batch[Head(evts)]))
  /\ UNCHANGED << tree, envOps, dry, inplace, fail, batch, lastRead, prevRead >>

(***************************************************************************)
(* The external actor.  Its operations are those of the file system; the   *)
(* kernel queues the events of the watches they touch (the mask of every   *)
(* watch is CREATE | MOVED_TO | DELETE_SELF | MOVE_SELF).                  *)
(***************************************************************************)
EnvCan == envOps < MaxEnvOps /\ pc # "panic"

\* The external actor logs nothing; batch, order and slept describe the run
\* in progress or the one that just returned, and are forgotten when the
\* tree changes after it returned.
EnvFrame ==
  /\ log' = << >>
  /\ IF pc = "read"
     THEN batch' = << >> /\ order' = << >> /\ slept' = FALSE
     ELSE UNCHANGED << batch, order, slept >>
  /\ UNCHANGED << dstDirs, dstFiles, dirs, inos, dry, fail, inplace, pc, evts, lastRead,
                  prevRead >>

FilePath(d, n) == IF d = RootIno THEN << n >> ELSE Append(PathOf(d), n)

\* A file is written into directory d.
EnvCreateFile(d, n) ==
  /\ EnvCan
  /\ ~NameTaken(d, n)
  /\ files' = files \cup { [ dir |-> d, name |-> n, id |-> envOps + 1 ] }
  /\ queue' = queue \o Notify(d, "CREATE", n, FALSE, envOps + 1, FilePath(d, n))
  /\ envOps' = envOps + 1
  /\ EnvFrame
  /\ UNCHANGED << tree, kw, nextWd >>

\* mkdir p/n
EnvMkdir(p, n) ==
  /\ EnvCan
  /\ ~NameTaken(p, n)
  /\ tree' = Put(tree, FreshIno, [ parent |-> p, name |-> n ])
  /\ queue' = queue \o Notify(p, "CREATE", n, TRUE, 0, FilePath(p, n))
  /\ envOps' = envOps + 1
  /\ EnvFrame
  /\ UNCHANGED << files, kw, nextWd >>

\* rename of directory d to p/n
EnvRenameDir(d, p, n) ==
  /\ EnvCan
  /\ d # RootIno
  /\ p \notin Subtree(d)
  /\ ~NameTaken(p, n)
  /\ tree' = [tree EXCEPT ![d] = [ parent |-> p, name |-> n ]]
  /\ queue' = queue \o Notify(p, "MOVED_TO", n, TRUE, 0, FilePath(p, n))
                    \o Notify(d, "MOVE_SELF", NoName, FALSE, 0, << >>)
  /\ envOps' = envOps + 1
  /\ EnvFrame
  /\ UNCHANGED << files, kw, nextWd >>

\* rmdir of the empty directory d: the kernel drops its watch.
EnvRmdir(d) ==
  /\ EnvCan
  /\ d # RootIno
  /\ ChildDirs(d) = {}
  /\ FilesIn(d) = {}
  /\ tree' = Drop(tree, d)
  /\ queue' = queue \o Notify(d, "DELETE_SELF", NoName, FALSE, 0, << >>)
                    \o Notify(d, "IGNORED", NoName, FALSE, 0, << >>)
  /\ kw' = [ w \in { x \in DOMAIN kw : kw[x] # d } |-> kw[w] ]
  /\ envOps' = envOps + 1
  /\ EnvFrame
  /\ UNCHANGED << files, nextWd >>

Env ==
  \/ \E d \in DOMAIN tree, n \in FileNames : EnvCreateFile(d, n)
  \/ \E p \in DOMAIN tree, n \in DirNames : EnvMkdir(p, n)
  \/ \E d \in DOMAIN tree, p \in DOMAIN tree, n \in DirNames : EnvRenameDir(d, p, n)
  \/ \E d \in DOMAIN tree : EnvRmdir(d)

Next == MainWatch \/ RunRead \/ RunReadErr \/ RunHandle \/ Env

Spec == Init /\ [][Next]_vars

(***************************************************************************)
(* Properties.                                                             *)
(***************************************************************************)
Alive == pc # "panic"

\* The live entries of dirs that hold inode i.
EntriesOf(i) == { w \in DOMAIN dirs : dirs[w].ino = i }

\* C1: while the process runs, an inode is in inos if and only if exactly one
\* entry of dirs has it; no two entries share an inode.
C1_InodeSetMatchesEntries ==
  Alive =>
    /\ \A i \in inos : Cardinality(EntriesOf(i)) = 1
    /\ \A w \in DOMAIN dirs : dirs[w].ino \in inos /\ EntriesOf(dirs[w].ino) = {w}

\* C1 witness: an entry was removed and an initial directory's inode has been
\* added again under a later descriptor, next to the other entries.
C1_Witness ==
  /\ Alive
  /\ \E w \in DOMAIN dirs : w > 3 /\ dirs[w].ino \in {2, 3}
  /\ Cardinality(DOMAIN dirs) >= 3
  /\ nextWd > Cardinality(DOMAIN dirs) + 1

\* What an "emit" record of the log names: the source path the Monitor used
\* and the destination path under dest.
EmitSrc(l) == IF l.path = RootPath THEN << l.name >> ELSE Append(l.path, l.name)
EmitDst(l) == Append(DstKey(l.path), l.name)
Emits(lg) == { i \in 1..Len(lg) : lg[i].op = "emit" }

\* C2: in every step, whatever is at a destination path stays there with the
\* same content; and an emit, not in dry-run, whose destination path exists
\* before the step returns the AlreadyExists error and leaves the file at its
\* source path in place.
C2_NoClobber ==
  [][ /\ \A q \in DOMAIN dstFiles : q \in DOMAIN dstFiles' /\ dstFiles'[q] = dstFiles[q]
      /\ \A i \in Emits(log') :
           (~dry /\ EmitDst(log'[i]) \in DOMAIN dstFiles)
             => /\ log'[i].res = "AlreadyExists"
                /\ FileAt(EmitSrc(log'[i])) \subseteq files'
    ]_vars

\* C2 witness: an emit has just failed on an existing destination file, the
\* source file is still at its source path and the destination holds another
\* file's content.
C2_Witness ==
  \E i \in Emits(log) :
    /\ log[i].res = "AlreadyExists"
    /\ ~dry
    /\ \E f \in FileAt(EmitSrc(log[i])) :
         /\ EmitDst(log[i]) \in DOMAIN dstFiles
         /\ dstFiles[EmitDst(log[i])] \notin {0, f.id}

\* The run has returned and its batch is still on record.
BatchDone == pc = "read" /\ batch # << >>

\* The event RunHandle handles next, and whether the step taken is RunHandle.
CurEvt == batch[Head(evts)]
HandleStep == pc = "handle" /\ evts # << >> /\ evts' = Tail(evts)

\* The directory part of a file's path, in the form the Monitor records.
DirOfPath(path) == IF Len(path) = 1 THEN RootPath ELSE SubSeq(path, 1, Len(path) - 1)

\* The plain-file events of the batch whose file matched the policy when the
\* kernel announced it.
MatchingEvts ==
  { i \in 1..Len(batch) :
      /\ batch[i].g_fid # 0
      /\ ~IsHidden(batch[i].name)
      /\ filter_name(NewDirectory(DirOfPath(batch[i].g_src), 0), batch[i].name) }

ReadStep == pc = "read" /\ queue # << >> /\ batch' = queue /\ lastRead' = "ok"

\* The handles a batch carries a self-delete or self-move event for.
SelfRemoved(b) ==
  { b[i].wd : i \in { j \in 1..Len(b) : b[j].mask \in {"DELETE_SELF", "MOVE_SELF"} } }

\* C4: the retain pass of a batch removes from dirs exactly the entries whose
\* handle has a self-delete or self-move event in the batch, each once and
\* with its inode, however many IGNORED events or further removals for the
\* same handle follow; IGNORED events and removals for absent handles change
\* neither dirs nor inos, and the process does not stop.
C4_OneRemoval ==
  [][ ReadStep =>
        /\ pc' # "panic"
        /\ DOMAIN dirs' = DOMAIN dirs \ SelfRemoved(queue)
        /\ \A w \in DOMAIN dirs' : dirs'[w] = dirs[w]
        /\ inos' = inos \ { dirs[w].ino : w \in DOMAIN dirs \cap SelfRemoved(queue) }
        /\ Cardinality(DOMAIN dirs) - Cardinality(DOMAIN dirs')
             = Cardinality(DOMAIN dirs \cap SelfRemoved(queue))
    ]_vars

\* C4 witness: a batch carried a self-move of a handle, then a self-delete of
\* the same handle (by then absent) and its IGNORED; the run went on.
C4_Witness ==
  /\ Alive
  /\ lastRead = "ok"
  /\ \E i, j, k \in 1..Len(batch) :
       /\ i < j /\ j < k
       /\ batch[i].mask = "MOVE_SELF"
       /\ batch[j].mask = "DELETE_SELF"
       /\ batch[k].mask = "IGNORED"
       /\ batch[i].wd = batch[j].wd /\ batch[j].wd = batch[k].wd
       /\ batch[i].wd \notin DOMAIN dirs
       /\ Cardinality(DOMAIN dirs) = 2

IsRm(i) == batch[i].mask \in RemovalMasks

\* C5: the events of a batch are processed removal class first, then
\* creation class, each class in arrival order; while a creation-class event
\* is being evaluated every removal-class event of the batch has been
\* processed and the handles it removes are out of dirs; when the run
\* returns every event has been processed once.
C5_RemovalsFirst ==
  Alive =>
    /\ \A a, b \in 1..Len(order) :
         a < b =>
           /\ order[a] # order[b]
           /\ ~(~IsRm(order[a]) /\ IsRm(order[b]))
           /\ (IsRm(order[a]) <=> IsRm(order[b])) => order[a] < order[b]
    /\ \A a \in 1..Len(order) : order[a] \in 1..Len(batch)
    /\ pc = "handle" =>
         /\ \A i \in 1..Len(batch) : IsRm(i) => \E a \in 1..Len(order) : order[a] = i
         /\ \A w \in SelfRemoved(batch) : w \notin DOMAIN dirs
         /\ \A a \in 1..Len(evts) : ~IsRm(evts[a])
    /\ BatchDone => Len(order) = Len(batch)

\* C5 witness: a batch whose creation-class event arrived before a
\* self-delete and its IGNORED has been processed, the removals first.
C5_Witness ==
  /\ BatchDone
  /\ Len(batch) >= 3
  /\ \E i, j, k \in 1..Len(batch) :
       /\ i < j /\ j < k
       /\ ~IsRm(i) /\ batch[j].mask = "DELETE_SELF" /\ batch[k].mask = "IGNORED"
       /\ \E a, b, c \in 1..Len(order) :
            a < b /\ b < c /\ order[a] = j /\ order[b] = k /\ order[c] = i

\* The step is a read that failed.
ReadErrStep == pc = "read" /\ lastRead' = "err" /\ prevRead' = lastRead /\ log' # << >>

\* C6: a failed read stops the process exactly when the read before it
\* failed too; a read that returns events after a failed one does not stop
\* it and clears the flag; after every step the flag is set exactly when the
\* latest read failed.
C6_TwoFailuresStop ==
  [][ /\ fail' <=> lastRead' = "err"
      /\ ReadErrStep => (pc' = "panic" <=> lastRead = "err")
      /\ (ReadStep /\ lastRead = "err") => (pc' # "panic" /\ ~fail')
    ]_vars

\* C6 witness: a failed read was followed by a read that returned events,
\* the process runs and the flag is clear.
C6_Witness ==
  /\ prevRead = "err"
  /\ lastRead = "ok"
  /\ Alive
  /\ ~fail

\* C7 as claimed: in a dry run nothing is created under dest and no file
\* leaves the watched tree.
C7_DryRunTouchesNothing ==
  [][ dry => /\ dstDirs' = {}
             /\ dstFiles' = EmptyFn
             /\ files \subseteq files'
    ]_vars

\* C8: every entry other than the root "." has a path without a dot-prefixed
\* component, a step adds no inode of a dot-prefixed directory to inos, no
\* move is attempted for a dot-prefixed name, no dot-prefixed file leaves the
\* watched tree and none appears under dest.
C8_HiddenUntouched ==
  [][ /\ \A w \in DOMAIN dirs' :
           dirs'[w].path # RootPath
             => \A k \in 1..Len(dirs'[w].path) : ~IsHidden(dirs'[w].path[k])
      /\ \A i \in inos' \ inos : i = RootIno \/ ~IsHidden(tree'[i].name)
      /\ \A i \in Emits(log') : ~IsHidden(log'[i].name)
      /\ \A f \in files : IsHidden(f.name) => f \in files'
      /\ \A q \in DOMAIN dstFiles' : ~IsHidden(q[Len(q)])
    ]_vars

\* C8 witness: the in-place scan has moved raw.Dng out of Screenshots and left
\* .x.mp4 and .thumb/ there, and a batch that announced a dot-prefixed file
\* in a watched directory has been processed with the file still in place.
C8_Witness ==
  /\ inplace /\ ~dry
  /\ << "Screenshots", "raw.Dng" >> \in DOMAIN dstFiles
  /\ \E f \in files : f.id = 9 /\ f.dir = 3
  /\ 4 \in DOMAIN tree /\ 4 \notin inos
  /\ BatchDone
  /\ Len(order) = Len(batch)
  /\ \E i \in 1..Len(batch) :
       /\ batch[i].g_fid # 0
       /\ IsHidden(batch[i].name)
       /\ batch[i].wd \in DOMAIN dirs
       /\ \E f \in files : f.id = batch[i].g_fid

\* The policy as a table over the names of the model.
Videos == { "VID_1.MP4", "raw.Dng" }
Images == { "IMG_1.jpg", "shot.png" }
CameraLike == { "Camera", "X_PRO", "100ANDRO" }
Wanted(path, n) == n \in Videos \/ (n \in Images /\ path[1] \notin CameraLike)
AllNames == { NameOrder[i] : i \in 1..Len(NameOrder) }

\* C9: image capability of an entry is set when it is added, from the first
\* segment of its path, and stays; filter_name accepts a non-hidden name in
\* an entry exactly when the table wants it; handling the event of a
\* non-hidden plain file attempts a move (the process not stopping in
\* create_dir_all) exactly when the table wants it, and otherwise touches
\* nothing; a
\* scan attempts moves only for wanted names; an mp4 in Camera goes to
\* dest/Camera/<name> and a png in Screenshots to dest/Screenshots/<name>.
C9_PolicyDecidesMove ==
  [][ /\ \A w \in DOMAIN dirs' \cap DOMAIN dirs :
           /\ dirs'[w].allow_img = dirs[w].allow_img
           /\ dirs'[w].path = dirs[w].path
      /\ \A w \in DOMAIN dirs' \ DOMAIN dirs :
           /\ dirs'[w].allow_img <=> dirs'[w].path[1] \in CameraLike
           /\ \A n \in AllNames :
                ~IsHidden(n) => (filter_name(dirs'[w], n) <=> Wanted(dirs'[w].path, n))
      /\ \A n \in AllNames : is_img_dir(<< n, "Burst" >>) <=> n \in CameraLike
      /\ \A i \in Emits(log') : Wanted(log'[i].path, log'[i].name)
      /\ ( /\ HandleStep
           /\ CurEvt.name # NoName
           /\ ~CurEvt.isdir
           /\ ~IsHidden(CurEvt.name)
           /\ CurEvt.wd \in DOMAIN dirs
           /\ pc' # "panic"
         ) =>
           /\ Emits(log') # {} <=> Wanted(dirs[CurEvt.wd].path, CurEvt.name)
           /\ ~Wanted(dirs[CurEvt.wd].path, CurEvt.name)
                => UNCHANGED << files, dstFiles, dstDirs >>
           /\ \A i \in Emits(log') :
                /\ log'[i].name = CurEvt.name
                /\ log'[i].path = dirs[CurEvt.wd].path
                /\ log'[i].res = "moved"
                     => /\ Append(DstKey(log'[i].path), CurEvt.name) \in DOMAIN dstFiles'
                        /\ \E f \in files \ files' :
                             /\ f.name = CurEvt.name
                             /\ dstFiles'[Append(DstKey(log'[i].path), CurEvt.name)] = f.id
    ]_vars

\* C9 witness: VID_1.MP4 written into Camera is at dest/Camera/VID_1.MP4 and
\* IMG_1.jpg written into Camera is still there after its batch.
C9_Witness ==
  /\ BatchDone
  /\ << "Camera", "VID_1.MP4" >> \in DOMAIN dstFiles
  /\ dstFiles[<< "Camera", "VID_1.MP4" >>] # 0
  /\ \E f \in files : f.name = "IMG_1.jpg" /\ f.dir = 2
  /\ \E i \in 1..Len(batch) : batch[i].name = "IMG_1.jpg" /\ batch[i].wd = 2
  /\ tree[2].name = "Camera"

\* C9 second witness: shot.png written into Screenshots is at
\* dest/Screenshots/shot.png.
C9_WitnessPng ==
  /\ << "Screenshots", "shot.png" >> \in DOMAIN dstFiles
  /\ dstFiles[<< "Screenshots", "shot.png" >>] # 0

IsPrefix(p, q) == Len(p) <= Len(q) /\ SubSeq(q, 1, Len(p)) = p

\* C10 as claimed, its second half: a directory appears under dest only in a
\* step that puts a file below it.
C10_DestDirOnlyWithFile ==
  [][ \A p \in dstDirs' \ dstDirs :
        \E q \in DOMAIN dstFiles' \ DOMAIN dstFiles : IsPrefix(p, q)
    ]_vars

\* The directories below directory i that a scan reaches: no dot-prefixed
\* name on the way.
RECURSIVE Reached(_)
Reached(i) ==
  {i} \cup UNION { Reached(c) : c \in { x \in ChildDirs(i) : ~IsHidden(tree[x].name) } }

\* Supporting C10, first half: when the creation event of a subdirectory is
\* handled while its owner is in dirs, the subdirectory is at the path the
\* owner's entry gives and no directory a scan reaches from it has its inode
\* in inos yet, then it and every directory a scan reaches below it have
\* their inode in inos after the step (a directory moved in while its old
\* entry is still in dirs is skipped as a duplicate inode, with everything
\* below it); dst_created of an entry is never
\* cleared and is set only in a step that calls emit for the entry.
C10_SubdirsAdded ==
  [][ /\ ( /\ HandleStep
           /\ CurEvt.name # NoName
           /\ CurEvt.isdir
           /\ ~IsHidden(CurEvt.name)
           /\ CurEvt.wd \in DOMAIN dirs
           /\ Resolve(join(dirs[CurEvt.wd], CurEvt.name)) # 0
           /\ Reached(Resolve(join(dirs[CurEvt.wd], CurEvt.name))) \cap inos = {}
           /\ pc' # "panic"
         ) => \A k \in Reached(Resolve(join(dirs[CurEvt.wd], CurEvt.name))) : k \in inos'
      /\ \A w \in DOMAIN dirs' :
           /\ (w \in DOMAIN dirs /\ dirs[w].dst_created) => dirs'[w].dst_created
           /\ (pc' # "panic" /\ dirs'[w].dst_created
                 /\ (w \in DOMAIN dirs => ~dirs[w].dst_created))
                => \E i \in Emits(log') : log'[i].wd = w
    ]_vars

\* The step handles the creation or move-in event of a directory with a
\* non-hidden name whose owner is in dirs, and the directory is at the path
\* the owner's entry gives.
DirEvtStep ==
  /\ HandleStep
  /\ CurEvt.name # NoName
  /\ CurEvt.isdir
  /\ ~IsHidden(CurEvt.name)
  /\ CurEvt.wd \in DOMAIN dirs
  /\ Resolve(join(dirs[CurEvt.wd], CurEvt.name)) # 0

NewDir == Resolve(join(dirs[CurEvt.wd], CurEvt.name))

\* C11 as claimed: in in-place mode, handling the event of a new directory
\* attempts a move for every matching non-hidden file already in it.
C11_InPlaceEventScanMoves ==
  [][ ( /\ DirEvtStep
        /\ inplace
        /\ NewDir \notin inos
        /\ pc' # "panic"
      ) =>
        \A f \in FilesIn(NewDir) :
          (~IsHidden(f.name) /\ filter_name(NewDirectory(PathOf(NewDir), NewDir), f.name))
            => \E i \in Emits(log') : log'[i].name = f.name /\ log'[i].path = PathOf(NewDir)
    ]_vars

\* C12 as claimed: handling the event of a plain file never stops the
\* process, whatever step of the move fails; the loop goes on to the next
\* event.
C12_MoveFailureContained ==
  [][ (HandleStep /\ CurEvt.name # NoName /\ ~CurEvt.isdir)
        => (pc' # "panic" /\ evts' = Tail(evts))
    ]_vars

\* C13 as claimed: handling the event of a directory stops the process only
\* on a duplicate watch descriptor; a failure concerning the directory alone
\* (it was removed or replaced between the stat, the watch registration and
\* the listing) is logged and the loop goes on.
C13_WatchFailureContained ==
  [][ (HandleStep /\ CurEvt.name # NoName /\ CurEvt.isdir)
        => /\ evts' = Tail(evts)
           /\ pc' = "panic"
                => \E i \in 1..Len(log') : log'[i].op = "panic" /\ log'[i].res = "Duplicate wd"
    ]_vars

\* The removal errors the retain pass logged in the step.
RmErrors(lg) == { i \in 1..Len(lg) : lg[i].op = "error handling removal" }

\* C14 as claimed: a failure to register a watch or to deregister one on a
\* self-move stops the process.
C14_WatchFailuresStop ==
  [][ /\ (\E i \in 1..Len(log') : log'[i].op = "panic" /\ log'[i].res = "add_watch")
           => pc' = "panic"
      /\ (ReadStep /\ RmErrors(log') # {}) => pc' = "panic"
      /\ pc # "panic"
    ]_vars

\* C14 as amended: a failure to register a watch stops the process, and
\* nothing is processed or read after the process stopped; a failure to
\* deregister the watch on a self-move is logged by the retain pass, the
\* entry is removed all the same, the event is consumed and the run goes on.
C14_OnlyRegistrationStops ==
  [][ /\ (\E i \in 1..Len(log') : log'[i].op = "panic" /\ log'[i].res = "add_watch")
           => pc' = "panic"
      /\ pc # "panic"
      /\ (ReadStep /\ RmErrors(log') # {}) =>
           /\ pc' # "panic"
           /\ \A i \in RmErrors(log') :
                /\ log'[i].wd \notin DOMAIN dirs'
                /\ \E k \in 1..Len(queue) :
                     /\ queue[k].mask = "MOVE_SELF"
                     /\ queue[k].wd = log'[i].wd
                     /\ \E a \in 1..Len(order') : order'[a] = k
                     /\ \A a \in 1..Len(evts') : evts'[a] # k
    ]_vars

\* C14 witness: the retain pass has logged the failed removal of the watch of
\* a self-moved directory and the process runs.
C14_Witness ==
  /\ Alive
  /\ lastRead = "ok"
  /\ \E i \in RmErrors(log) :
       /\ log[i].res = "InvalidInput"
       /\ \E k \in 1..Len(batch) : batch[k].mask = "MOVE_SELF" /\ batch[k].wd = log[i].wd
       /\ log[i].wd \notin DOMAIN dirs

\* The step logs that handle failed with NotFound.
NotFoundLogged(lg) ==
  \E i \in 1..Len(lg) : lg[i].op = "error handling" /\ lg[i].res = "NotFound"

\* What a dropped event leaves alone.
Dropped ==
  /\ dirs' = dirs /\ inos' = inos
  /\ UNCHANGED << files, dstFiles, dstDirs, kw, nextWd, slept >>
  /\ \A i \in 1..Len(log') : log'[i].op \notin {"emit", "watching", "sleep"}
  /\ evts' = Tail(evts)
  /\ pc' = IF Tail(evts) = << >> THEN "read" ELSE "handle"

\* C15 as claimed: every creation-class event whose handle is not in dirs is
\* dropped with a logged NotFound error and without effect.
C15_UnknownHandleNotFound ==
  [][ (HandleStep /\ CurEvt.name # NoName /\ CurEvt.wd \notin DOMAIN dirs)
        => (Dropped /\ NotFoundLogged(log'))
    ]_vars

\* C15 as amended: such an event is dropped without effect and the loop goes
\* on; the NotFound error is logged when the event's name is not
\* dot-prefixed, and nothing is logged when it is.
C15_UnknownHandleDropped ==
  [][ (HandleStep /\ CurEvt.name # NoName /\ CurEvt.wd \notin DOMAIN dirs)
        => /\ Dropped
           /\ IF IsHidden(CurEvt.name) THEN log' = << >> ELSE NotFoundLogged(log')
    ]_vars

\* C15 witness: the event of a file whose directory was self-moved in the
\* same batch has just been dropped with NotFound, and an event remains.
C15_Witness ==
  /\ pc = "handle"
  /\ NotFoundLogged(log)
  /\ order # << >>
  /\ batch[order[Len(order)]].wd \in SelfRemoved(batch)
  /\ batch[order[Len(order)]].g_fid # 0
  /\ \E f \in files : f.id = batch[order[Len(order)]].g_fid

Sleeps(lg) == { i \in 1..Len(lg) : lg[i].op = "sleep" }

\* C16: the settle delay is taken only while handling the event of a
\* matching non-hidden plain file whose handle is in dirs, and only when the
\* batch has not taken it yet; a move attempted for an event comes after the
\* batch's delay; the flag is clear when a batch starts and stays set until
\* the next one.
C16_OneDelayPerBatch ==
  [][ /\ Cardinality(Sleeps(log')) <= 1
      /\ Sleeps(log') # {} =>
           /\ HandleStep
           /\ ~slept /\ slept'
           /\ CurEvt.name # NoName /\ ~CurEvt.isdir /\ ~IsHidden(CurEvt.name)
           /\ CurEvt.wd \in DOMAIN dirs
           /\ filter_name(dirs[CurEvt.wd], CurEvt.name)
      /\ (slept' /\ ~slept) => Sleeps(log') # {}
      /\ (HandleStep /\ slept) => slept'
      /\ ReadStep => ~slept'
      /\ HandleStep =>
           \A i \in Emits(log') :
             /\ slept'
             /\ slept \/ \E j \in Sleeps(log') : j < i
    ]_vars

\* C16 witness: a batch announced two files, both were moved, and the batch
\* took its delay.
C16_Witness ==
  /\ BatchDone
  /\ slept
  /\ \E i, j \in 1..Len(batch) :
       /\ i < j
       /\ batch[i].g_fid # 0 /\ batch[j].g_fid # 0
       /\ \E q, r \in DOMAIN dstFiles :
            dstFiles[q] = batch[i].g_fid /\ dstFiles[r] = batch[j].g_fid

\* C17 as claimed: in in-place mode no entry of dirs is a directory whose
\* bare name has the ignore prefix.
C17_IgnoredNeverWatched ==
  inplace =>
    \A w \in DOMAIN dirs :
      ~is_ignored_dir(dirs[w].path[Len(dirs[w].path)], inplace)

\* C18: when emit has claimed the destination name and the rename fails
\* (nothing is at the source path), the empty placeholder is at the
\* destination path after the step, no file of the watched tree is touched,
\* handle's error is logged and the run goes on; a placeholder is never
\* removed or replaced afterwards.
C18_PlaceholderStays ==
  [][ /\ HandleStep =>
           \A i \in Emits(log') :
             log'[i].res = "NotFound" =>
               /\ EmitDst(log'[i]) \notin DOMAIN dstFiles
               /\ EmitDst(log'[i]) \in DOMAIN dstFiles'
               /\ dstFiles'[EmitDst(log'[i])] = 0
               /\ FileAt(EmitSrc(log'[i])) = {}
               /\ files' = files
               /\ NotFoundLogged(log')
               /\ pc' # "panic"
      /\ \A q \in DOMAIN dstFiles :
           dstFiles[q] = 0 => (q \in DOMAIN dstFiles' /\ dstFiles'[q] = 0)
    ]_vars

\* C18 witness: the file's directory was renamed between the read and the
\* handling of the file's event; the placeholder is at the destination path
\* and the file is still in the watched tree.
C18_Witness ==
  /\ Alive
  /\ NotFoundLogged(log)
  /\ \E i \in Emits(log) :
       /\ log[i].res = "NotFound"
       /\ EmitDst(log[i]) \in DOMAIN dstFiles
       /\ dstFiles[EmitDst(log[i])] = 0
       /\ \E f \in files : f.name = log[i].name /\ f.id = batch[order[Len(order)]].g_fid

\* Every notification has been processed: the Monitor waits in read and the
\* queue is empty.
Quiet == pc = "read" /\ queue = << >>

\* C19 as claimed: when every notification has been processed, the path of
\* every entry names the directory whose inode the entry holds.
C19_PathsNameInodes ==
  Quiet => \A w \in DOMAIN dirs : Resolve(dirs[w].path) = dirs[w].ino

\* C20: when every notification has been processed the handles of dirs are
\* the descriptors of the kernel's watches, each entry holding the inode its
\* watch is on; a call of add that returns an error leaves the kernel's
\* watches as they were (every watch a step registers has an entry with its
\* descriptor after the step, the process running on).
C20_TableMatchesKernel ==
  [][ /\ Quiet' =>
           /\ DOMAIN dirs' = DOMAIN kw'
           /\ \A w \in DOMAIN dirs' : kw'[w] = dirs'[w].ino
      /\ pc' # "panic" =>
           \A w \in DOMAIN kw' \ DOMAIN kw : w \in DOMAIN dirs' /\ w \notin DOMAIN dirs
    ]_vars

\* C20 witness: a watched directory was renamed inside the tree and another
\* removed; all events are processed, the old watches are gone from the
\* kernel and from dirs, and the renamed directory has a new watch.
C20_Witness ==
  /\ Quiet
  /\ lastRead = "ok"
  /\ DOMAIN dirs = DOMAIN kw
  /\ nextWd > Cardinality(DOMAIN kw) + 1
  /\ \E w \in DOMAIN kw : w > 3 /\ kw[w] \in {2, 3}
  /\ envOps = MaxEnvOps

=============================================================================
